---- MODULE Spec2Model ----
(***************************************************************************)
(* IDSimF: the full-sum velocity-Verlet integrator                         *)
(* (Integration::FullSumVerletIntegrator), its run state machine, the      *)
(* two-phase step with its parallel-for over the particles, the MD         *)
(* interactions collision model as modifier hook and the random generator  *)
(* pools.                                                                  *)
(*                                                                         *)
(* Numbers: positions, velocities and accelerations are one-dimensional    *)
(* integers (the code's Core::Vector operations are component-wise); the   *)
(* time step is an even integer, so that the factors 1/2*dt*dt and         *)
(* 1/2*dt of the Verlet scheme are exact.                                  *)
(***************************************************************************)
EXTENDS Integers, Sequences, FiniteSets, TLC

\* ------------------------------------------------------------------ bounds
\* largest ensemble handed to the integrator
MaxParticles == 3
\* largest nTimesteps handed to run()
MaxSteps == 2
\* number of run() calls made on one integrator
MaxRuns == 2
\* size of the OpenMP team executing the parallel phase
NWorkers == 2
\* chunk of the parallel-for; the source has schedule(dynamic, 40), scaled
\* down here so that an ensemble of MaxParticles spans more than one chunk
ChunkSize == 2
\* particles the simulation creates while the tracker is in use
MaxCreated == 2
\* addParticle calls the caller of the integrator makes
MaxAdditions == 1

\* ------------------------------------------------------- program constants
\* ionAcceleration of the test's force law
IonAcceleration == 10

Workers == 1..NWorkers
NoTermination == MaxSteps + MaxRuns * MaxSteps + 1
None == 0 - 1

\* time steps handed to run(): even, see the header
TimeSteps == {2}
\* start positions of the particles of an ensemble
StartPositions == {2, 4}
\* the region in which the external field of the potential array is defined
Domain == -3..3

VARIABLES
    tracker,    \* the ParticleStartSplatTracker and the particles it is used on
    sci,        \* the SpatialChargeIndex and the particles it is built from
    ionDef,     \* the particles and particlePtrs vectors readIonDefinition fills
    cfg,        \* the setup: what the integrator is constructed with, how
                \* often run() is called on it and what the callbacks and
                \* the caller do (never changes)
    runState_,  \* AbstractTimeIntegrator::runState_
    pc,         \* position of the caller inside run()
    nTimesteps, \* argument of the current run()
    dt,         \* argument of the current run()
    step,       \* loop variable of run()
    time_,      \* AbstractTimeIntegrator::time_
    timestep_,  \* AbstractTimeIntegrator::timestep_
    unborn,     \* particles handed to the constructor and not born yet
    monitored,  \* invocations of the particle start monitoring function
    ens,        \* particles_, newPos_, a_t_, a_tdt_, nParticles_
    rng,        \* state of the random sources of the global pool
    wk,         \* per worker: its position in the parallel-for
    nextChunk,  \* first index not yet handed out by the dynamic schedule
    \* ---- history variables (observations, no program state)
    cbLog,      \* postTimestepFunction_ calls of the current run
    reqAt,      \* steps committed in this run when the callback first
                \* requested termination
    runStart,   \* time_, timestep_, particles_ when run() was entered
    pre,        \* ens when the current step was entered
    preRng,     \* rng when the current step was entered
    seen,       \* per particle: the positions its force law read
    progress,   \* per particle: statements of the parallel body executed
    writes,     \* per worker: what it wrote in the current parallel phase
    handed,     \* per random source: the workers it was handed to
    seqLog,     \* calls of the sequential phase of the last step
    otherCount, \* otherActionsFunction_ calls of the current run
    history     \* nTimesteps of the finished runs

vars == <<cfg, tracker, sci, ionDef, runState_, pc, nTimesteps, dt, step, time_, timestep_, unborn,
          monitored,
          ens, rng, wk, nextChunk, cbLog, reqAt, runStart, pre, preRng,
          seen,
          progress, writes, handed, seqLog, otherCount, history>>

\* ------------------------------------------------------------ particles
\* Core::Particle: location, velocity, active flag, time of birth
Particle(p, tob) == [pos |-> p, vel |-> 0, active |-> TRUE, tob |-> tob]

EmptyEnsemble ==
    [particles_ |-> <<>>, newPos_ |-> <<>>, a_t_ |-> <<>>, a_tdt_ |-> <<>>,
     nParticles_ |-> 0]

\* a faulty addParticle, which allocates no staged position for the particle
addParticle_NoStagedPosition(e, particle) ==
    [particles_  |-> Append(e.particles_, particle),
     newPos_     |-> e.newPos_,
     a_t_        |-> Append(e.a_t_, 0),
     a_tdt_      |-> Append(e.a_tdt_, 0),
     nParticles_ |-> e.nParticles_ + 1]

\* FullSumVerletIntegrator::addParticle
addParticle(e, particle) ==
    [particles_  |-> Append(e.particles_, particle),
     newPos_     |-> Append(e.newPos_, 0),
     a_t_        |-> Append(e.a_t_, 0),
     a_tdt_      |-> Append(e.a_tdt_, 0),
     nParticles_ |-> e.nParticles_ + 1]

\* a faulty invocation of the particle start monitoring function, which
\* reports the particle twice
particleStartMonitoringFct_Twice(log, i, time) ==
    log \o <<[index |-> i, time |-> time], [index |-> i, time |-> time]>>

\* the particle start monitoring function is invoked for the particle at
\* index i
particleStartMonitoringFct_(log, i, time) ==
    Append(log, [index |-> i, time |-> time])

\* AbstractTimeIntegrator::bearParticles_: the particles whose time of birth
\* has come are added to the integrator, in the order of their time of
\* birth, and reported to the particle start monitoring function
RECURSIVE bearParticlesFrom(_, _, _, _)
bearParticlesFrom(e, waiting, time, log) ==
    IF waiting # <<>> /\ Head(waiting).tob <= time
    THEN bearParticlesFrom(addParticle(e, Head(waiting)), Tail(waiting), time,
             particleStartMonitoringFct_(log, e.nParticles_ + 1, time))
    ELSE [ens |-> e, unborn |-> waiting, monitored |-> log]

\* a faulty bearParticles_, which bears a particle one time unit early
bearParticles_Early(e, waiting, time) ==
    bearParticlesFrom(e, waiting, time + 1, monitored)

bearParticles_(e, waiting, time) ==
    bearParticlesFrom(e, waiting, time, monitored)

\* AbstractTimeIntegrator::setTerminationState
setTerminationState(rs) == "IN_TERMINATION"

\* a faulty activity test, which lets the step process every particle
isActive_Always(e, i) == TRUE

\* a faulty test, which lets a termination request pre-empt the step: no
\* particle counts as active once IN_TERMINATION is set
isActive_UnlessTerminating(e, i) ==
    e.particles_[i].active /\ runState_ # "IN_TERMINATION"

\* Core::Particle::isActive, as both phases of the step test it
isActive(e, i) == e.particles_[i].active

\* ------------------------------------------------------------ force laws
Sign(d) == IF d > 0 THEN 1 ELSE IF d < 0 THEN 0 - 1 ELSE 0

\* field of a unit charge at signed distance d (an integer Coulomb law; the
\* evaluation point coinciding with the source contributes nothing)
CoulombField(d) == IF d = 0 THEN 0 ELSE Sign(d) * (4 \div (d * d))

\* FullSumFieldEvaluator::fieldAt: the sum over the active particles of the
\* evaluator other than the excluded one, read from the live particles
RECURSIVE FieldSum(_, _, _)
FieldSum(e, i, j) ==
    IF j > e.nParticles_ THEN 0
    ELSE (IF j # i /\ e.particles_[j].active
          THEN CoulombField(e.particles_[i].pos - e.particles_[j].pos)
          ELSE 0) + FieldSum(e, i, j + 1)

getEFieldFromSpaceCharge(e, i) == FieldSum(e, i, 1)

\* the external field of the potential array inside its domain
ExternalField(p) == 1

\* accelerationFct of the integrator test: the same acceleration everywhere
accelerationFct(e, i) ==
    [a |-> IonAcceleration, active |-> e.particles_[i].active]

\* a faulty force law, which returns the zero acceleration outside the
\* potential array but leaves the particle active
accelerationFunction_KeepsActive(e, i) ==
    IF e.particles_[i].pos \in Domain
    THEN [a |-> ExternalField(e.particles_[i].pos)
                  + getEFieldFromSpaceCharge(e, i),
          active |-> e.particles_[i].active]
    ELSE [a |-> 0, active |-> e.particles_[i].active]

\* accelerationFunction of staticSimionPASim: external field plus space
\* charge; outside the potential array getField throws, the particle is
\* deactivated and the acceleration is zero (charge, mass, factor are 1)
accelerationFunction(e, i) ==
    IF e.particles_[i].pos \in Domain
    THEN [a |-> ExternalField(e.particles_[i].pos)
                  + getEFieldFromSpaceCharge(e, i),
          active |-> e.particles_[i].active]
    ELSE [a |-> 0, active |-> FALSE]

accelerationFunction_(e, i) ==
    IF cfg.accelerationFunction_ = "accelerationFct"
    THEN accelerationFct(e, i)
    ELSE accelerationFunction(e, i)

\* ------------------------------------------- the body of the parallel-for
HalfDtSquared(d) == (d * d) \div 2

\* newPos_[i] = location + velocity*dt + a_t_[i]*(1/2*dt*dt)
StagePosition(e, i, d) ==
    [e EXCEPT !.newPos_[i] = e.particles_[i].pos + e.particles_[i].vel * d
                             + e.a_t_[i] * HalfDtSquared(d)]

\* a_tdt_[i] = accelerationFunction_(...); the force law may deactivate the
\* particle; modifyAcceleration of the MD model does nothing
EvaluateForce(e, i) ==
    LET r == accelerationFunction_(e, i)
    IN  [e EXCEPT !.a_tdt_[i] = r.a, !.particles_[i].active = r.active]

\* a faulty parallel body, which commits the staged position at once
LocationInParallelPhase_Staged(e, i) == e.newPos_[i]

\* the location of particle i as the parallel phase leaves it: untouched
LocationInParallelPhase(e, i) == e.particles_[i].pos

\* a faulty parallel body, which stores the new acceleration as the
\* previous one before it integrates the velocity
IntegrateVelocity_StoresFirst(e, i, d) ==
    [e EXCEPT !.particles_[i].vel = @ + ((e.a_tdt_[i] + e.a_tdt_[i]) * d) \div 2,
              !.particles_[i].pos = LocationInParallelPhase(e, i),
              !.a_t_[i] = e.a_tdt_[i]]

\* velocity += (a_t_[i] + a_tdt_[i])*1/2*dt;  a_t_[i] = a_tdt_[i]
IntegrateVelocity(e, i, d) ==
    [e EXCEPT !.particles_[i].vel = @ + ((e.a_t_[i] + e.a_tdt_[i]) * d) \div 2,
              !.particles_[i].pos = LocationInParallelPhase(e, i),
              !.a_t_[i] = e.a_tdt_[i]]

\* ------------------------------------------------------ random generators
\* the predetermined samples of the test distributions, and of a seeded
\* generator (values in quarters of the unit interval)
UniformSamples == <<0, 2, 1, 3>>
NormalSamples == <<1, 0 - 1, 2>>

RandomSources == 1..NWorkers
FreshSource == [u |-> 0, n |-> 0]

\* TestRandomGeneratorPool: its only member is the single element_
TestPool_getRandomSource(index) == 1
TestPool_getThreadRandomSource(w) == 1

\* RandomGeneratorPool: elements_ holds one element per thread
Pool_getRandomSource(index) == index
Pool_getThreadRandomSource(w) == w

getRandomSource(index) ==
    IF cfg.globalRandomGeneratorPool = "TestRandomGeneratorPool"
    THEN TestPool_getRandomSource(index)
    ELSE Pool_getRandomSource(index)

getThreadRandomSource(w) ==
    IF cfg.globalRandomGeneratorPool = "TestRandomGeneratorPool"
    THEN TestPool_getThreadRandomSource(w)
    ELSE Pool_getThreadRandomSource(w)

\* the k-th value a source will return from now on (k = 0: the next one)
uniformRealRndValue(r, el, k) ==
    UniformSamples[((r[el].u + k) % Len(UniformSamples)) + 1]
normalRealRndValue(r, el, k) ==
    NormalSamples[((r[el].n + k) % Len(NormalSamples)) + 1]

\* the source after ku uniform and kn normal variates were taken from it
Consume(r, el, ku, kn) ==
    [r EXCEPT ![el] = [u |-> (r[el].u + ku) % Len(UniformSamples),
                       n |-> (r[el].n + kn) % Len(NormalSamples)]]

\* ---------------------------------------------------- MDInteractionsModel
\* collision probability of the time step, in quarters
CollisionProb(particle, d) == 1

\* velocity of the ion after the sub-integration of the collision: fixed by
\* the ion and by the variates that place and move the gas molecule
CollisionVelocity(v, phi, theta, vBg) == phi - theta + vBg - v

\* a faulty modifyVelocity, which draws the deciding variate before it looks
\* at the pressure
modifyVelocity_DrawsFirst(e, r, i, el, d) ==
    IF cfg.staticPressure = 0
       \/ uniformRealRndValue(r, el, 0) > CollisionProb(e.particles_[i], d)
    THEN [ens |-> e, rng |-> Consume(r, el, 1, 0), drawn |-> TRUE,
          file |-> FALSE]
    ELSE [ens |-> [e EXCEPT !.particles_[i].vel =
                      CollisionVelocity(@, uniformRealRndValue(r, el, 1),
                                        uniformRealRndValue(r, el, 2),
                                        normalRealRndValue(r, el, 0)
                                        + normalRealRndValue(r, el, 1)
                                        + normalRealRndValue(r, el, 2))],
          rng |-> Consume(r, el, 9, 3), drawn |-> TRUE, file |-> TRUE]

\* MDInteractionsModel::modifyVelocity with the random source el:
\* at zero pressure nothing; one uniform variate decides the collision; a
\* collision takes 8 more uniform and 3 normal variates, runs
\* leapfrogIntern, which writes position_output.txt, and sets the velocity
modifyVelocity(e, r, i, el, d) ==
    IF cfg.staticPressure = 0
    THEN [ens |-> e, rng |-> r, drawn |-> FALSE, file |-> FALSE]
    ELSE IF uniformRealRndValue(r, el, 0) > CollisionProb(e.particles_[i], d)
    THEN [ens |-> e, rng |-> Consume(r, el, 1, 0), drawn |-> TRUE,
          file |-> FALSE]
    ELSE [ens |-> [e EXCEPT !.particles_[i].vel =
                      CollisionVelocity(@, uniformRealRndValue(r, el, 1),
                                        uniformRealRndValue(r, el, 2),
                                        normalRealRndValue(r, el, 0)
                                        + normalRealRndValue(r, el, 1)
                                        + normalRealRndValue(r, el, 2))],
          rng |-> Consume(r, el, 9, 3), drawn |-> TRUE, file |-> TRUE]

\* a faulty hook, whose modifyVelocity stops the particle
NoOp_modifyVelocity_Stops(e, r, i, el, d) ==
    [ens |-> [e EXCEPT !.particles_[i].vel = 0], rng |-> r, drawn |-> FALSE,
     file |-> FALSE]

\* modifyVelocity of the collision model whose callbacks have empty bodies
NoOp_modifyVelocity(e, r, i, el, d) ==
    [ens |-> e, rng |-> r, drawn |-> FALSE, file |-> FALSE]

\* ------------------------------------------------- the sequential phase
\* no particle is added by the otherActions callback
NoSpawn == [timestep |-> None, index |-> None]

\* the particle the caller adds with addParticle
AddedParticle == Particle(2, 0)

\* particles the caller has added with addParticle so far
Additions(e) == e.nParticles_ + Len(unborn) - Len(cfg.particles)

\* otherActionsFunction_ of a caller that adds a particle to the integrator
\* when the callback is invoked for particle cfg.spawn.index in step
\* cfg.spawn.timestep
otherActionsFunction_(e, i) ==
    IF cfg.spawn.timestep = timestep_ /\ cfg.spawn.index = i
       /\ Additions(e) < cfg.additions
    THEN addParticle(e, AddedParticle)
    ELSE e

\* a faulty iteration, which commits the position before the hooks run
SequentialBody_CommitFirst(e, i) ==
    LET e1 == [otherActionsFunction_(e, i) EXCEPT
                  !.particles_[i].pos = e.newPos_[i]]
        hook == IF cfg.collisionModel_ = "nullptr" THEN <<>>
                ELSE << <<"modifyPosition", i, e.newPos_[i],
                          e1.particles_[i].pos>> >>
        other == << <<"otherActions", i, e.newPos_[i], e1.particles_[i].pos>> >>
    IN  [ens |-> e1,
         log |-> hook \o other
                 \o << <<"setLocation", i, e.newPos_[i], e1.particles_[i].pos>> >>]

\* one iteration of the loop over the particles: modifyPosition (nothing,
\* for the MD model), otherActionsFunction_, setLocation; with the calls it
\* makes and what each call sees
SequentialBody(e, i) ==
    LET hook == IF cfg.collisionModel_ = "nullptr" THEN <<>>
                ELSE << <<"modifyPosition", i, e.newPos_[i],
                          e.particles_[i].pos>> >>
        called == cfg.otherActionsFunction_ # "nullptr"
        other == IF called
                 THEN << <<"otherActions", i, e.newPos_[i],
                           e.particles_[i].pos>> >>
                 ELSE <<>>
        e1 == [(IF called THEN otherActionsFunction_(e, i) ELSE e) EXCEPT
                  !.particles_[i].pos = e.newPos_[i]]
    IN  [ens |-> e1,
         log |-> hook \o other
                 \o << <<"setLocation", i, e.newPos_[i], e1.particles_[i].pos>> >>]

\* the loop over the particles, in ascending index order, inactive skipped;
\* the loop bound nParticles_ is read anew in every iteration
RECURSIVE SequentialPhase(_, _, _)
SequentialPhase(e, i, log) ==
    IF i > e.nParticles_ THEN [ens |-> e, log |-> log]
    ELSE IF isActive(e, i)
    THEN LET b == SequentialBody(e, i)
         IN  SequentialPhase(b.ens, i + 1, log \o b.log)
    ELSE SequentialPhase(e, i + 1, log)

\* postTimestepFct of the integrator test: counts its calls and requests
\* termination from step terminationTimeStep on
postTimestepFunction_(rs, ts) ==
    IF ts >= cfg.terminationTimeStep THEN setTerminationState(rs) ELSE rs

\* if (postTimestepFunction_ != nullptr) postTimestepFunction_(...): the
\* run state after it, and the log of the calls
PostTimestepCall(rs, ts) ==
    IF cfg.postTimestepFunction_ = "nullptr" THEN rs
    ELSE postTimestepFunction_(rs, ts)

PostTimestepLog(log, call) ==
    IF cfg.postTimestepFunction_ = "nullptr" THEN log ELSE Append(log, call)

\* ------------------------------------------- ParticleStartSplatTracker
\* the addresses at which the simulation keeps its particles: two, so that
\* a particle can be created at the address of a destroyed one while another
\* particle lives
Addresses == {1, 2}
\* the locations of the particles the tracker is used on
TrackerLocations == {0, 1}

NoEntry == [state |-> "none"]
NoParticle == [alive |-> FALSE]

\* ParticleStartSplatTracker::ParticleStartSplatTracker, and a simulation
\* that has created no particle yet
EmptyTracker ==
    [pMap_ |-> [a \in Addresses |-> NoEntry],
     pInsertIndex_ |-> 0,
     sortedParticleData_ |-> <<>>,
     heap |-> [a \in Addresses |-> NoParticle],
     created |-> 0,
     result |-> "ok",
     last |-> [op |-> "construct", addr |-> 0]]

\* the record particleStart prepares for the particle at address a
StartEntry(tr, a, time) ==
    [globalIndex |-> tr.pInsertIndex_,
     state |-> "STARTED",
     startTime |-> time,
     splatTime |-> 0,
     startLocation |-> tr.heap[a].loc,
     splatLocation |-> 0]

\* a faulty particleStart, which overwrites the record of a particle that is
\* registered already
particleStart_Overwrites(tr, a, time) ==
    [tr EXCEPT !.pMap_[a] = StartEntry(tr, a, time),
               !.heap[a].globalIndex = tr.pInsertIndex_,
               !.pInsertIndex_ = @ + 1,
               !.result = "ok",
               !.last = [op |-> "particleStart", addr |-> a]]

\* a faulty particleStart, which counts the registration it rejects
particleStart_ConsumesIndex(tr, a, time) ==
    IF tr.pMap_[a] = NoEntry
    THEN [tr EXCEPT !.pMap_[a] = StartEntry(tr, a, time),
                    !.heap[a].globalIndex = tr.pInsertIndex_,
                    !.pInsertIndex_ = @ + 1,
                    !.result = "ok",
                    !.last = [op |-> "particleStart", addr |-> a]]
    ELSE [tr EXCEPT !.pInsertIndex_ = @ + 1,
                    !.result = "invalid_argument",
                    !.last = [op |-> "particleStart", addr |-> a]]

\* particleStart: try_emplace of a new record under the particle's address
particleStart(tr, a, time) ==
    IF tr.pMap_[a] = NoEntry
    THEN [tr EXCEPT !.pMap_[a] = StartEntry(tr, a, time),
                    !.heap[a].globalIndex = tr.pInsertIndex_,
                    !.pInsertIndex_ = @ + 1,
                    !.result = "ok",
                    !.last = [op |-> "particleStart", addr |-> a]]
    ELSE [tr EXCEPT !.result = "invalid_argument",
                    !.last = [op |-> "particleStart", addr |-> a]]

\* a faulty particleSplat, which stamps the start of the record as well
particleSplat_RestampsStart(tr, a, time) ==
    IF tr.pMap_[a] # NoEntry
    THEN [tr EXCEPT !.pMap_[a].splatLocation = tr.heap[a].loc,
                    !.pMap_[a].splatTime = time,
                    !.pMap_[a].startLocation = tr.heap[a].loc,
                    !.pMap_[a].startTime = time,
                    !.pMap_[a].state = "SPLATTED",
                    !.result = "ok",
                    !.last = [op |-> "particleSplat", addr |-> a]]
    ELSE [tr EXCEPT !.result = "invalid_argument",
                    !.last = [op |-> "particleSplat", addr |-> a]]

\* particleSplat: pMap_.at(particle), out_of_range rethrown as
\* invalid_argument
particleSplat(tr, a, time) ==
    IF tr.pMap_[a] # NoEntry
    THEN [tr EXCEPT !.pMap_[a].splatLocation = tr.heap[a].loc,
                    !.pMap_[a].splatTime = time,
                    !.pMap_[a].state = "SPLATTED",
                    !.result = "ok",
                    !.last = [op |-> "particleSplat", addr |-> a]]
    ELSE [tr EXCEPT !.result = "invalid_argument",
                    !.last = [op |-> "particleSplat", addr |-> a]]

\* get: pMap_.at(particle), whose out_of_range is not caught
get(tr, a) ==
    [tr EXCEPT !.result = IF tr.pMap_[a] # NoEntry THEN "ok"
                          ELSE "out_of_range",
               !.last = [op |-> "get", addr |-> a]]

\* the records of the map ordered by global index
RECURSIVE SortedByGlobalIndex(_)
SortedByGlobalIndex(entries) ==
    IF entries = {} THEN <<>>
    ELSE LET first == CHOOSE e \in entries :
                         \A f \in entries : e.globalIndex <= f.globalIndex
         IN  <<first>> \o SortedByGlobalIndex(entries \ {first})

\* a faulty sortStartSplatData, which does not empty the vector first
sortStartSplatData_Appends(tr) ==
    [tr EXCEPT !.sortedParticleData_ =
                   @ \o SortedByGlobalIndex({tr.pMap_[a] : a \in
                       {b \in Addresses : tr.pMap_[b] # NoEntry}}),
               !.result = "ok",
               !.last = [op |-> "sortStartSplatData", addr |-> 0]]

\* sortStartSplatData
sortStartSplatData(tr) ==
    [tr EXCEPT !.sortedParticleData_ =
                   SortedByGlobalIndex({tr.pMap_[a] : a \in
                       {b \in Addresses : tr.pMap_[b] # NoEntry}}),
               !.result = "ok",
               !.last = [op |-> "sortStartSplatData", addr |-> 0]]

\* enum particleState as the integer getSplatState returns
StateCode(state) == IF state = "STARTED" THEN 1 ELSE 2

\* the getters: one value per entry of sortedParticleData_
getStartSplatData(tr) == tr.sortedParticleData_

getSplatState(tr) ==
    [k \in 1..Len(tr.sortedParticleData_) |->
        StateCode(tr.sortedParticleData_[k].state)]

getStartTimes(tr) ==
    [k \in 1..Len(tr.sortedParticleData_) |->
        tr.sortedParticleData_[k].startTime]

getSplatTimes(tr) ==
    [k \in 1..Len(tr.sortedParticleData_) |->
        tr.sortedParticleData_[k].splatTime]

getStartLocations(tr) ==
    [k \in 1..Len(tr.sortedParticleData_) |->
        tr.sortedParticleData_[k].startLocation]

getSplatLocations(tr) ==
    [k \in 1..Len(tr.sortedParticleData_) |->
        tr.sortedParticleData_[k].splatLocation]

\* the simulation creates a particle; the allocator hands out the lowest
\* free address
CreateParticle(a, loc) ==
    /\ ~tracker.heap[a].alive
    /\ \A b \in Addresses : b < a => tracker.heap[b].alive
    /\ tracker.created < MaxCreated
    /\ tracker' = [tracker EXCEPT
                      !.heap[a] = [alive |-> TRUE, id |-> tracker.created + 1,
                                   loc |-> loc, globalIndex |-> None],
                      !.created = @ + 1,
                      !.last = [op |-> "create", addr |-> a]]

\* the simulation destroys a particle; the tracker is not told
DestroyParticle(a) ==
    /\ tracker.heap[a].alive
    /\ tracker' = [tracker EXCEPT
                      !.heap[a] = NoParticle,
                      !.last = [op |-> "destroy", addr |-> a]]

\* the simulation moves a particle
MoveParticle(a, loc) ==
    /\ tracker.heap[a].alive
    /\ tracker.heap[a].loc # loc
    /\ tracker' = [tracker EXCEPT
                      !.heap[a].loc = loc,
                      !.last = [op |-> "move", addr |-> a]]

\* the simulation time: the clock ticks with every particle created
TrackerTime == tracker.created

\* the calls of the tracker on a particle the simulation holds
ParticleStartCall(a, time) ==
    /\ tracker.heap[a].alive
    /\ tracker' = particleStart(tracker, a, time)

ParticleSplatCall(a, time) ==
    /\ tracker.heap[a].alive
    /\ tracker' = particleSplat(tracker, a, time)

GetCall(a) ==
    /\ tracker.heap[a].alive
    /\ tracker' = get(tracker, a)

SortCall == tracker' = sortStartSplatData(tracker)

\* --------------------------------------------------- SpatialChargeIndex
\* vectors with three integer components
Zero3 == <<0, 0, 0>>
VAdd(a, b) == [k \in 1..3 |-> a[k] + b[k]]
VSub(a, b) == [k \in 1..3 |-> a[k] - b[k]]
VScale(c, a) == [k \in 1..3 |-> c * a[k]]
Norm2(a) == a[1] * a[1] + a[2] * a[2] + a[3] * a[3]

\* the root region, a cube that bounds all particles, and the capacity
\* threshold of a leaf
RootSize == 4
Capacity == 1

NoIndex == [size |-> 0]
NoBuild == [done |-> FALSE, particles |-> <<>>]
NoQuery == [asked |-> FALSE]
\* no build has been started
NoJob == [state |-> "idle"]

\* a region that holds no particle
EmptyNode(o, s) ==
    [origin |-> o, size |-> s, charge |-> 0, wsum |-> Zero3,
     particles |-> <<>>, children |-> <<>>]

\* the octant (1..8) of the region at o with size s in which pos lies
OctantOf(o, s, pos) ==
    1 + (IF pos[1] >= o[1] + s \div 2 THEN 1 ELSE 0)
      + (IF pos[2] >= o[2] + s \div 2 THEN 2 ELSE 0)
      + (IF pos[3] >= o[3] + s \div 2 THEN 4 ELSE 0)

\* the eight equal octants of a region, empty
Subdivide(node) ==
    [k \in 1..8 |->
        EmptyNode(VAdd(node.origin,
                       VScale(node.size \div 2,
                              <<(k - 1) % 2, ((k - 1) \div 2) % 2,
                                (k - 1) \div 4>>)),
                  node.size \div 2)]

\* a node takes the particle into its aggregate: charge and charge-weighted
\* position sum (the centroid is wsum / charge)
Aggregate(node, p) ==
    [node EXCEPT !.charge = @ + p.charge,
                 !.wsum = VAdd(@, VScale(p.charge, p.pos))]

\* insertion of a particle: every node on the way down updates its
\* aggregate; a leaf that would exceed the capacity threshold is subdivided
\* and its particles are inserted into the octants again
RECURSIVE InsertParticle(_, _)
RECURSIVE Distribute(_, _, _)
Distribute(node, children, ps) ==
    IF ps = <<>> THEN children
    ELSE LET k == OctantOf(node.origin, node.size, Head(ps).pos)
         IN  Distribute(node,
                        [children EXCEPT ![k] = InsertParticle(@, Head(ps))],
                        Tail(ps))

\* a faulty insertion, which never subdivides a leaf
InsertParticle_NoSubdivision(node, p) ==
    [Aggregate(node, p) EXCEPT !.particles = Append(@, p)]

InsertParticle(node, p) ==
    IF node.children # <<>>
    THEN [Aggregate(node, p) EXCEPT
             !.children[OctantOf(node.origin, node.size, p.pos)] =
                 InsertParticle(@, p)]
    ELSE IF Len(node.particles) + 1 > Capacity
    THEN [Aggregate(node, p) EXCEPT
             !.particles = <<>>,
             !.children = Distribute(node, Subdivide(node),
                                     Append(node.particles, p))]
    ELSE [Aggregate(node, p) EXCEPT !.particles = Append(@, p)]

RECURSIVE InsertAll(_, _)
InsertAll(node, ps) ==
    IF ps = <<>> THEN node
    ELSE InsertAll(InsertParticle(node, Head(ps)), Tail(ps))

\* a faulty selection, which takes every particle for active
ActiveOf_Everyone(ps) == ps

\* the active ones of the particles
ActiveOf(ps) == SelectSeq(ps, LAMBDA p : p.active)

\* a faulty build, which yields no index when no particle is active
build_NeedsParticles(ps) ==
    IF ActiveOf(ps) = <<>> THEN NoIndex
    ELSE InsertAll(EmptyNode(Zero3, RootSize), ActiveOf(ps))

\* build(particles): the hierarchy over the active particles, inserted one
\* at a time into the root region
build(ps) == InsertAll(EmptyNode(Zero3, RootSize), ActiveOf(ps))

\* the opening angles, as their squares: 0 and the default 0.5
Thetas == {[num |-> 0, den |-> 1], [num |-> 1, den |-> 4]}

\* the exact pairwise contribution of a charge q at r to the field at the
\* point: q * (r - point) scaled with the inverse square of the distance
\* (integer stand-in for k*q*(r - p)/|r - p|^3); nothing at distance zero
Contribution(q, r, point) ==
    IF r = point THEN Zero3
    ELSE VScale(q * (64 \div Norm2(VSub(r, point))), VSub(r, point))

\* a faulty criterion, which uses the default opening angle whatever the
\* index is configured with
UsePseudoParticle_DefaultTheta(node, point, theta) ==
    node.size * node.size * node.charge * node.charge * 4
        < Norm2(VSub(node.wsum, VScale(node.charge, point)))

\* ratio < theta for regionSize / distanceToCentroid, with the centroid
\* wsum / charge: size^2 * charge^2 < theta^2 * |wsum - charge*point|^2
UsePseudoParticle(node, point, theta) ==
    node.size * node.size * node.charge * node.charge * theta.den
        < theta.num * Norm2(VSub(node.wsum, VScale(node.charge, point)))

\* the terms fieldAt sums: at a leaf the particles inside but the excluded
\* one, at an internal node with ratio < theta the pseudo-particle of the
\* subtree, else the terms of the eight children
RECURSIVE FieldTerms(_, _, _, _)
RECURSIVE ChildTerms(_, _, _, _, _)
ChildTerms(node, k, point, exclude, theta) ==
    IF k > Len(node.children) THEN <<>>
    ELSE FieldTerms(node.children[k], point, exclude, theta)
             \o ChildTerms(node, k + 1, point, exclude, theta)

FieldTerms(node, point, exclude, theta) ==
    IF node.children = <<>>
    THEN LET inside == SelectSeq(node.particles, LAMBDA p : p.id # exclude)
         IN  [j \in 1..Len(inside) |->
                 [kind |-> "exact", id |-> inside[j].id,
                  value |-> Contribution(inside[j].charge, inside[j].pos,
                                         point)]]
    ELSE IF UsePseudoParticle(node, point, theta)
    THEN << [kind |-> "pseudo", id |-> 0,
             value |-> Contribution(node.charge,
                           [k \in 1..3 |-> node.wsum[k] \div node.charge],
                           point)] >>
    ELSE ChildTerms(node, 1, point, exclude, theta)

RECURSIVE SumTerms(_)
SumTerms(terms) ==
    IF terms = <<>> THEN Zero3
    ELSE VAdd(Head(terms).value, SumTerms(Tail(terms)))

\* SpatialChargeIndex.fieldAt(point, excludeParticle)
fieldAt(root, point, exclude, theta) ==
    LET terms == FieldTerms(root, point, exclude, theta)
    IN  [asked |-> TRUE, point |-> point, exclude |-> exclude,
         theta |-> theta, terms |-> terms, value |-> SumTerms(terms)]

\* FullSumFieldEvaluator.fieldAt: the direct sum over the active particles
\* but the excluded one
FullSumFieldAt(ps, point, exclude) ==
    LET others == SelectSeq(ActiveOf(ps), LAMBDA p : p.id # exclude)
    IN  SumTerms([j \in 1..Len(others) |->
                    [value |-> Contribution(others[j].charge, others[j].pos,
                                            point)]])

\* -------------------------------------------------------- construction
Min(a, b) == IF a < b THEN a ELSE b

Positions(e) == [i \in 1..e.nParticles_ |-> e.particles_[i].pos]

\* the ensembles handed to the constructor: up to MaxParticles particles at
\* rest, all born at time 0, alternately at the two start positions
Ensembles ==
    {[i \in 1..n |-> Particle(IF i % 2 = 1 THEN p ELSE 6 - p, 0)] :
        n \in 0..MaxParticles, p \in StartPositions}

\* the two vectors of an application that has read no ion definition
NoIonDefinition ==
    [particles |-> <<>>, particlePtrs |-> <<>>, heap |-> {}, reads |-> 0,
     returned |-> FALSE]

Configurations ==
    {c \in [particles : Ensembles,
            accelerationFunction_ : {"accelerationFct", "accelerationFunction"},
            collisionModel_ : {"nullptr", "MDInteractionsModel"},
            globalRandomGeneratorPool : {"RandomGeneratorPool",
                                         "TestRandomGeneratorPool"},
            staticPressure : {0, 1},
            calls : 1..MaxRuns,
            terminationTimeStep : (0..MaxSteps) \cup {NoTermination},
            additions : {0},
            spawn : {NoSpawn},
            postTimestepFunction_ : {"postTimestepFct"},
            otherActionsFunction_ : {"otherActionsFct"},
            cloud : {<<>>},
            ionDefinition : {NoIonDefinition}] :
        c.collisionModel_ = "nullptr"
            => /\ c.globalRandomGeneratorPool = "RandomGeneratorPool"
               /\ c.staticPressure = 0}

IdleWorker == [state |-> "idle", i |-> 0, last |-> 0]

InitWith(c) ==
    /\ cfg = c
    /\ tracker = EmptyTracker
    /\ ionDef = c.ionDefinition
    /\ sci = [particles |-> c.cloud, root |-> NoIndex, built |-> NoBuild,
              query |-> NoQuery, job |-> NoJob]
    /\ runState_ = "INITIALIZED"
    /\ pc = "idle"
    /\ nTimesteps = 0
    /\ dt = 0
    /\ step = 0
    /\ time_ = 0
    /\ timestep_ = 0
    /\ unborn = c.particles
    /\ monitored = <<>>
    /\ ens = EmptyEnsemble
    /\ rng = [el \in RandomSources |-> FreshSource]
    /\ wk = [w \in Workers |-> IdleWorker]
    /\ nextChunk = 1
    /\ cbLog = <<>>
    /\ reqAt = None
    /\ runStart = [time |-> 0, timestep |-> 0, particles |-> <<>>]
    /\ pre = EmptyEnsemble
    /\ preRng = [el \in RandomSources |-> FreshSource]
    /\ seen = <<>>
    /\ progress = <<>>
    /\ writes = [w \in Workers |-> {}]
    /\ handed = [el \in RandomSources |-> {}]
    /\ seqLog = <<>>
    /\ otherCount = 0
    /\ history = <<>>

Init ==
    \E c \in Configurations :
        c.calls = MaxRuns /\ InitWith(c)

\* ------------------------------------------------------------------ run()
parallelVars == <<wk, nextChunk, pre, preRng, seen, progress, writes, handed>>

\* one call of postTimestepFunction_ as the log records it
Call(ts, t, last) == [timestep |-> ts, time |-> t, last |-> last]

\* run(n, d) up to the step-0 callback: RUNNING, bearParticles_(0.0)
RunBegin(n, d) ==
    /\ pc = "idle"
    /\ Len(history) < cfg.calls
    /\ LET born == bearParticles_(ens, unborn, 0)
       IN  /\ ens' = born.ens
           /\ unborn' = born.unborn
           /\ monitored' = born.monitored
           /\ runStart' = [time |-> time_, timestep |-> timestep_,
                           particles |-> born.ens.particles_]
    /\ runState_' = "RUNNING"
    /\ nTimesteps' = n
    /\ dt' = d
    /\ step' = 0
    /\ cbLog' = <<>>
    /\ reqAt' = None
    /\ otherCount' = 0
    /\ pc' = "announce"
    /\ UNCHANGED <<cfg, tracker, sci, ionDef, time_, timestep_, rng, parallelVars, seqLog, history>>

\* the step-0 callback of run()
Announce ==
    /\ pc = "announce"
    /\ runState_' = PostTimestepCall(runState_, timestep_)
    /\ cbLog' = PostTimestepLog(cbLog, Call(timestep_, time_, FALSE))
    /\ reqAt' = IF runState_' = "IN_TERMINATION" THEN 0 ELSE None
    /\ pc' = "loop"
    /\ UNCHANGED <<cfg, tracker, sci, ionDef, nTimesteps, dt, step, time_, timestep_, unborn, monitored, ens,
                   rng, parallelVars, runStart, seqLog, otherCount, history>>

\* the loop condition of run() fails: on to finalizeSimulation
ExitLoop ==
    /\ pc = "loop"
    /\ step >= nTimesteps
    /\ pc' = "finalize"
    /\ UNCHANGED <<cfg, tracker, sci, ionDef, runState_, nTimesteps, dt, step, time_, timestep_,
                   unborn, monitored, ens, rng, parallelVars, cbLog, reqAt, runStart,
                   seqLog, otherCount, history>>

\* a faulty finalizeSimulation, which does not flag its callback as the last
finalizeSimulation_NotLast(log, ts, t) == Append(log, Call(ts, t, FALSE))

\* finalizeSimulation: the callback, flagged as the last one
finalizeSimulation(log, ts, t) == PostTimestepLog(log, Call(ts, t, TRUE))

\* finalizeSimulation, then STOPPED, and run() returns
Finalize ==
    /\ pc = "finalize"
    /\ cbLog' = finalizeSimulation(cbLog, timestep_, time_)
    /\ runState_' = "STOPPED"
    /\ history' = Append(history, nTimesteps)
    /\ pc' = "idle"
    /\ UNCHANGED <<cfg, tracker, sci, ionDef, nTimesteps, dt, step, time_, timestep_, unborn, monitored, ens,
                   rng, parallelVars, reqAt, runStart, seqLog, otherCount>>

\* ---------------------------------------------------------- runSingleStep
runVars == <<cfg, tracker, sci, ionDef, runState_, nTimesteps, dt, step, time_, timestep_, cbLog,
             reqAt, runStart, seqLog, otherCount, history>>

\* the loop condition of run() holds: runSingleStep is entered,
\* bearParticles_(time_), and the parallel region opens
BeginStep ==
    /\ pc = "loop"
    /\ step < nTimesteps
    /\ LET born == bearParticles_(ens, unborn, time_)
       IN  /\ ens' = born.ens
           /\ unborn' = born.unborn
           /\ monitored' = born.monitored
           /\ pre' = born.ens
           /\ preRng' = rng
           /\ seen' = [i \in 1..born.ens.nParticles_ |-> <<>>]
           /\ progress' = [i \in 1..born.ens.nParticles_ |-> 0]
    /\ wk' = [w \in Workers |-> IdleWorker]
    /\ nextChunk' = 1
    /\ writes' = [w \in Workers |-> {}]
    /\ pc' = "parallel"
    /\ UNCHANGED <<runVars, rng, handed>>

\* schedule(dynamic, ChunkSize): an idle worker takes the next chunk
GrabChunk(w) ==
    /\ pc = "parallel"
    /\ wk[w].state = "idle"
    /\ nextChunk <= ens.nParticles_
    /\ wk' = [wk EXCEPT ![w] =
                [state |-> "force", i |-> nextChunk,
                 last |-> Min(nextChunk + ChunkSize - 1, ens.nParticles_)]]
    /\ nextChunk' = nextChunk + ChunkSize
    /\ UNCHANGED <<runVars, pc, unborn, monitored, ens, rng, pre, preRng, seen, progress,
                   writes, handed>>

\* the worker's next iteration of the parallel-for, or none
Advance(w) ==
    IF wk[w].i < wk[w].last
    THEN [wk EXCEPT ![w].state = "force", ![w].i = @ + 1]
    ELSE [wk EXCEPT ![w] = IdleWorker]

\* the first half of an iteration of the parallel-for: isActive(),
\* updateModelParticleParameters, newPos_[i] = ..., a_tdt_[i] =
\* accelerationFunction_(...), modifyAcceleration; an inactive particle is
\* skipped
ForcePhase(w) ==
    /\ pc = "parallel"
    /\ wk[w].state = "force"
    /\ LET i == wk[w].i
       IN  IF isActive(ens, i)
           THEN /\ ens' = EvaluateForce(StagePosition(ens, i, dt), i)
                /\ seen' = [seen EXCEPT ![i] = Positions(ens)]
                /\ writes' = [writes EXCEPT ![w] =
                                @ \cup {<<"newPos_", i>>, <<"a_tdt_", i>>}
                                  \cup (IF ens'.particles_[i].active
                                        THEN {} ELSE {<<"active", i>>})]
                /\ progress' = [progress EXCEPT ![i] = 1]
                /\ wk' = [wk EXCEPT ![w].state = "velocity"]
           ELSE /\ wk' = Advance(w)
                /\ UNCHANGED <<ens, seen, writes, progress>>
    /\ UNCHANGED <<runVars, pc, unborn, monitored, rng, nextChunk, pre, preRng, handed>>

\* what modifyVelocity of the collision model does for worker w
Collision(e, r, w, i, d) ==
    IF cfg.collisionModel_ = "nullptr"
    THEN [ens |-> e, rng |-> r, drawn |-> FALSE, file |-> FALSE]
    ELSE IF cfg.collisionModel_ = "NoOpModel"
    THEN NoOp_modifyVelocity(e, r, i, getThreadRandomSource(w), d)
    ELSE modifyVelocity(e, r, i, getThreadRandomSource(w), d)

\* the second half: setVelocity(...), a_t_[i] = a_tdt_[i], and
\* collisionModel_->modifyVelocity(particle, dt) with the random source the
\* pool hands to this thread
VelocityPhase(w) ==
    /\ pc = "parallel"
    /\ wk[w].state = "velocity"
    /\ LET i == wk[w].i
           el == getThreadRandomSource(w)
           e1 == IntegrateVelocity(ens, i, dt)
           m == Collision(e1, rng, w, i, dt)
       IN  /\ ens' = m.ens
           /\ rng' = m.rng
           /\ handed' = IF cfg.collisionModel_ \in {"nullptr", "NoOpModel"}
                        THEN handed
                        ELSE [handed EXCEPT ![el] = @ \cup {w}]
           /\ writes' = [writes EXCEPT ![w] =
                           @ \cup {<<"velocity", i>>, <<"a_t_", i>>}
                             \cup (IF e1.particles_[i].pos = ens.particles_[i].pos
                                   THEN {} ELSE {<<"location", i>>})
                             \cup (IF m.drawn THEN {<<"randomSource", el>>} ELSE {})
                             \cup (IF m.file
                                   THEN {<<"file", "position_output.txt">>}
                                   ELSE {})]
           /\ progress' = [progress EXCEPT ![i] = 2]
    /\ wk' = Advance(w)
    /\ UNCHANGED <<runVars, pc, unborn, monitored, nextChunk, pre, preRng, seen>>

\* a faulty step, which leaves the simulation time where it is
AdvanceTime_Stalled(t, d) == t

\* time_ = time_ + dt
AdvanceTime(t, d) == t + d

OtherActionsCalls(log) == Len(SelectSeq(log, LAMBDA c : c[1] = "otherActions"))

\* the parallel region is left (every worker is through), then the
\* sequential phase, time_ += dt, timestep_++, the callback, and back in
\* run() the test of IN_TERMINATION
CommitStep ==
    /\ pc = "parallel"
    /\ nextChunk > ens.nParticles_
    /\ \A w \in Workers : wk[w].state = "idle"
    /\ LET sp == SequentialPhase(ens, 1, <<>>)
       IN  /\ ens' = sp.ens
           /\ seqLog' = sp.log
           /\ otherCount' = otherCount + OtherActionsCalls(sp.log)
    /\ time_' = AdvanceTime(time_, dt)
    /\ timestep_' = timestep_ + 1
    /\ runState_' = PostTimestepCall(runState_, timestep_')
    /\ cbLog' = PostTimestepLog(cbLog, Call(timestep_', time_', FALSE))
    /\ reqAt' = IF reqAt = None /\ runState_' = "IN_TERMINATION"
                THEN step + 1 ELSE reqAt
    /\ IF runState_' = "IN_TERMINATION"
       THEN pc' = "finalize" /\ step' = step
       ELSE pc' = "loop" /\ step' = step + 1
    /\ UNCHANGED <<cfg, tracker, sci, ionDef, nTimesteps, dt, unborn, monitored, rng, parallelVars, runStart,
                   history>>

Next ==
    \/ \E n \in 0..MaxSteps, d \in TimeSteps : RunBegin(n, d)
    \/ Announce
    \/ BeginStep
    \/ \E w \in Workers : GrabChunk(w)
    \/ \E w \in Workers : ForcePhase(w)
    \/ \E w \in Workers : VelocityPhase(w)
    \/ CommitStep
    \/ ExitLoop
    \/ Finalize

Spec == Init /\ [][Next]_vars

\* several runs on one integrator, with a collision model that never
\* collides (zero pressure): every step is deterministic up to the schedule
InitRun ==
    \E c \in Configurations :
        /\ c.calls = MaxRuns
        /\ c.staticPressure = 0
        /\ c.globalRandomGeneratorPool = "RandomGeneratorPool"
        /\ InitWith(c)

SpecRun == InitRun /\ [][Next]_vars

\* one run on a fresh integrator, every force law, collision model and pool
InitStep ==
    \E c \in Configurations :
        /\ c.calls = 1
        /\ c.collisionModel_ = "MDInteractionsModel" => c.staticPressure = 1
        /\ InitWith(c)

SpecStep == InitStep /\ [][Next]_vars

\* ------------------------------------------------ particles born later
\* times of birth: at the start, between the first two steps, and at the
\* time the longest first run ends
BirthTimes == {0, 1, 2 * MaxSteps}

\* ensembles handed to the constructor in the order of their times of birth
BirthEnsembles ==
    UNION {{ps \in [1..n -> {Particle(2, tob) : tob \in BirthTimes}] :
               \A i \in 1..(n - 1) : ps[i].tob <= ps[i + 1].tob} :
           n \in 0..MaxParticles}

\* runs on an integrator whose particles are born in the course of the runs
InitBirth ==
    \E c \in Configurations, ps \in BirthEnsembles :
        /\ c.particles = <<>>
        /\ c.calls = MaxRuns
        /\ c.accelerationFunction_ = "accelerationFct"
        /\ c.collisionModel_ = "nullptr"
        /\ c.terminationTimeStep = NoTermination
        /\ InitWith([c EXCEPT !.particles = ps])

SpecBirth == InitBirth /\ [][Next]_vars

\* ------------------------------------------- the caller adds particles
\* the caller calls addParticle before a run or between two runs
AddParticleCall ==
    /\ pc = "idle"
    /\ Additions(ens) < cfg.additions
    /\ ens' = addParticle(ens, AddedParticle)
    /\ UNCHANGED <<runVars, pc, unborn, monitored, rng, parallelVars>>

\* what the otherActions callback of the caller may do: add a particle when
\* invoked for one of the particles in one of the steps
Spawns ==
    {NoSpawn} \cup [timestep : 0..(MaxSteps - 1), index : 1..MaxParticles]

\* runs with a force law of its own for every particle, on an integrator
\* to which the caller adds particles between the runs and from the
\* otherActions callback; the constructor is handed no particle or one
InitAdd ==
    \E c \in Configurations, a \in 1..MaxAdditions, sp \in Spawns :
        /\ c.calls = MaxRuns
        /\ c.particles # <<>> => c.particles[1].pos = 2
        /\ Len(c.particles) <= 1
        /\ c.accelerationFunction_ = "accelerationFct"
        /\ c.collisionModel_ = "nullptr"
        /\ c.terminationTimeStep = NoTermination
        /\ InitWith([c EXCEPT !.additions = a, !.spawn = sp])

NextAdd == Next \/ AddParticleCall

SpecAdd == InitAdd /\ [][NextAdd]_vars

\* ------------------------------------- termination requested from outside
\* an external controller (a signal handler) calls setTerminationState
\* while a step is under way
ExternalTermination ==
    /\ pc = "parallel"
    /\ runState_' = setTerminationState(runState_)
    /\ UNCHANGED <<cfg, tracker, sci, ionDef, pc, nTimesteps, dt, step, time_, timestep_,
                   unborn, monitored, ens, rng, parallelVars, cbLog, reqAt, runStart,
                   seqLog, otherCount, history>>

\* one run whose callback never requests termination
InitSignal ==
    \E c \in Configurations :
        /\ c.calls = 1
        /\ c.collisionModel_ = "nullptr"
        /\ c.terminationTimeStep = NoTermination
        /\ InitWith(c)

NextSignal == Next \/ ExternalTermination

SpecSignal == InitSignal /\ [][NextSignal]_vars

\* the signal arrives after SignalHandler::setReceiver(integrator) and
\* before run() is entered: setTerminationState on the fresh integrator
EarlyTermination ==
    /\ pc = "idle"
    /\ runState_ = "INITIALIZED"
    /\ runState_' = setTerminationState(runState_)
    /\ UNCHANGED <<cfg, tracker, sci, ionDef, pc, nTimesteps, dt, step, time_, timestep_,
                   unborn, monitored, ens, rng, parallelVars, cbLog, reqAt, runStart,
                   seqLog, otherCount, history>>

\* one run, with a callback that requests termination at some step or
\* never, on an integrator registered as the receiver of the signal
InitEarly ==
    \E c \in Configurations :
        /\ c.calls = 1
        /\ c.collisionModel_ = "nullptr"
        /\ InitWith(c)

NextEarly == Next \/ EarlyTermination

SpecEarly == InitEarly /\ [][NextEarly]_vars

\* ------------------------------------------ optional hooks and callbacks
\* what the constructor may be handed for the collision model, the
\* post-step callback and the otherActions callback: nothing, or a collision
\* model with empty callbacks and callbacks of the caller
Hooks ==
    [collisionModel_ : {"nullptr", "NoOpModel"},
     postTimestepFunction_ : {"nullptr", "postTimestepFct"},
     otherActionsFunction_ : {"nullptr", "otherActionsFct"}]

\* one run with the force law of the integrator test
InitHook ==
    \E c \in Configurations, h \in Hooks :
        /\ c.calls = 1
        /\ c.accelerationFunction_ = "accelerationFct"
        /\ c.collisionModel_ = "nullptr"
        /\ InitWith([c EXCEPT
                        !.collisionModel_ = h.collisionModel_,
                        !.postTimestepFunction_ = h.postTimestepFunction_,
                        !.otherActionsFunction_ = h.otherActionsFunction_])

SpecHook == InitHook /\ [][Next]_vars

\* one run with the MD collision model attached, in a gas or in vacuum
InitCollide ==
    \E c \in Configurations :
        /\ c.calls = 1
        /\ c.collisionModel_ = "MDInteractionsModel"
        /\ c.accelerationFunction_ = "accelerationFct"
        /\ c.terminationTimeStep = NoTermination
        /\ InitWith(c)

SpecCollide == InitCollide /\ [][Next]_vars

\* ---------------------------------------------- the tracker on its own
integratorVarsButIndex ==
    <<runState_, pc, nTimesteps, dt, step, time_, timestep_, unborn,
      monitored, ens, rng, wk, nextChunk, cbLog, reqAt, runStart, pre, preRng, seen,
      progress, writes, handed, seqLog, otherCount, history>>

integratorVars ==
    <<cfg, sci, ionDef, runState_, pc, nTimesteps, dt, step, time_, timestep_, unborn,
      monitored, ens, rng, wk, nextChunk, cbLog, reqAt, runStart, pre, preRng, seen,
      progress, writes, handed, seqLog, otherCount, history>>

\* a simulation that creates, moves and destroys particles and reports
\* their starts and splats to the tracker; no integrator is run
InitTracker ==
    \E c \in Configurations :
        /\ c.particles = <<>>
        /\ c.accelerationFunction_ = "accelerationFct"
        /\ c.collisionModel_ = "nullptr"
        /\ c.terminationTimeStep = NoTermination
        /\ c.calls = 1
        /\ InitWith(c)

NextTracker ==
    \/ \E a \in Addresses, loc \in TrackerLocations :
          CreateParticle(a, loc) /\ UNCHANGED integratorVars
    \/ \E a \in Addresses : DestroyParticle(a) /\ UNCHANGED integratorVars
    \/ \E a \in Addresses, loc \in TrackerLocations :
          MoveParticle(a, loc) /\ UNCHANGED integratorVars
    \/ \E a \in Addresses :
          ParticleStartCall(a, TrackerTime) /\ UNCHANGED integratorVars
    \/ \E a \in Addresses :
          ParticleSplatCall(a, TrackerTime) /\ UNCHANGED integratorVars
    \/ \E a \in Addresses : GetCall(a) /\ UNCHANGED integratorVars
    \/ SortCall /\ UNCHANGED integratorVars

SpecTracker == InitTracker /\ [][NextTracker]_vars

\* the tracker in a simulation that destroys no particle
NextRecords ==
    \/ \E a \in Addresses, loc \in TrackerLocations :
          CreateParticle(a, loc) /\ UNCHANGED integratorVars
    \/ \E a \in Addresses, loc \in TrackerLocations :
          MoveParticle(a, loc) /\ UNCHANGED integratorVars
    \/ \E a \in Addresses :
          ParticleStartCall(a, TrackerTime) /\ UNCHANGED integratorVars
    \/ \E a \in Addresses :
          ParticleSplatCall(a, TrackerTime) /\ UNCHANGED integratorVars
    \/ SortCall /\ UNCHANGED integratorVars

SpecRecords == InitTracker /\ [][NextRecords]_vars

\* ------------------------------------- the spatial charge index on its own
\* where the particles of the index are: three in one octant of the root
\* region, two of them in one octant of that octant, and two in other
\* octants
CloudPositions ==
    << <<0, 0, 0>>, <<1, 0, 0>>, <<0, 0, 1>>, <<0, 3, 0>>, <<3, 3, 3>> >>

\* the evaluation points: the places of two particles, one in the crowded
\* octant, and a place that no particle has
QueryPoints == {<<0, 0, 0>>, <<3, 3, 3>>, <<3, 0, 3>>}

\* the particle sets handed to the index: up to MaxParticles particles at
\* different places, with charge 1 or 2 by the place
Clouds ==
    UNION {{[i \in 1..n |-> [id |-> i, pos |-> CloudPositions[f[i]],
                            charge |-> 1 + (f[i] % 2), active |-> TRUE]] :
               f \in {g \in [1..n -> 1..Len(CloudPositions)] :
                         \A i \in 1..(n - 1) : g[i] < g[i + 1]}} :
           n \in 0..MaxParticles}

\* build(particles) on the current particles
BuildCall ==
    /\ sci' = [sci EXCEPT !.root = build(sci.particles),
                          !.built = [done |-> TRUE,
                                     particles |-> sci.particles],
                          !.query = NoQuery]
    /\ UNCHANGED <<cfg, tracker, ionDef, integratorVarsButIndex>>

\* a particle is deactivated: a flag flip in place; the index is not told
DeactivateCall(i) ==
    /\ i \in 1..Len(sci.particles)
    /\ sci.particles[i].active
    /\ sci' = [sci EXCEPT !.particles[i].active = FALSE]
    /\ UNCHANGED <<cfg, tracker, ionDef, integratorVarsButIndex>>

\* fieldAt(point, excludeParticle) on the index built last
FieldAtCall(point, exclude, theta) ==
    /\ sci.built.done
    /\ sci.root # NoIndex
    /\ sci' = [sci EXCEPT !.query = fieldAt(sci.root, point, exclude, theta)]
    /\ UNCHANGED <<cfg, tracker, ionDef, integratorVarsButIndex>>

InitTree ==
    \E c \in Configurations, ps \in Clouds :
        /\ c.particles = <<>>
        /\ c.accelerationFunction_ = "accelerationFct"
        /\ c.collisionModel_ = "nullptr"
        /\ c.terminationTimeStep = NoTermination
        /\ c.calls = 1
        /\ InitWith([c EXCEPT !.cloud = ps])

NextTree ==
    \/ BuildCall
    \/ \E i \in 1..MaxParticles : DeactivateCall(i)
    \/ \E point \in QueryPoints, exclude \in 0..MaxParticles,
          theta \in Thetas : FieldAtCall(point, exclude, theta)

SpecTree == InitTree /\ [][NextTree]_vars

\* ------------------------------------------------ the build, step by step
\* The recursion of the insertion, one subdivision at a time. A leaf at its
\* capacity that takes one more particle is subdivided; the particles go
\* to the octants; when they all go to the same octant, that octant
\* overflows in turn and is subdivided next.

\* the subdivisions within one insertion are counted modulo MaxDepth: a
\* cell smaller than the grid of positions is the same at every depth
MaxDepth == 4

\* the particle sets handed to the index, particles at the same place
\* included
CloudsAnywhere ==
    UNION {{[i \in 1..n |-> [id |-> i, pos |-> CloudPositions[f[i]],
                            charge |-> 1 + (f[i] % 2), active |-> TRUE]] :
               f \in [1..n -> 1..Len(CloudPositions)]} :
           n \in 0..MaxParticles}

\* the leaf of the hierarchy that a particle at pos is handed down to
RECURSIVE LeafFor(_, _)
LeafFor(node, pos) ==
    IF node.children = <<>> THEN node
    ELSE LeafFor(node.children[OctantOf(node.origin, node.size, pos)], pos)

\* the octants that the particles held by a cell go to
OctantsOf(cell, held) ==
    {OctantOf(cell.origin, cell.size, held[i].pos) : i \in 1..Len(held)}

\* build is entered: the root region is empty, every active particle is to
\* be inserted
StartBuild ==
    /\ sci.job.state = "idle"
    /\ sci' = [sci EXCEPT !.job = [state |-> "inserting",
                                   todo |-> ActiveOf(sci.particles),
                                   tree |-> EmptyNode(Zero3, RootSize),
                                   cell |-> EmptyNode(Zero3, RootSize),
                                   held |-> <<>>, depth |-> 0]]
    /\ UNCHANGED <<cfg, tracker, ionDef, integratorVarsButIndex>>

\* the next particle is handed down to its leaf, which takes it or, being
\* at its capacity, has to be subdivided
InsertStep ==
    /\ sci.job.state = "inserting"
    /\ sci.job.todo # <<>>
    /\ LET p == Head(sci.job.todo)
           leaf == LeafFor(sci.job.tree, p.pos)
       IN  IF Len(leaf.particles) + 1 > Capacity
           THEN sci' = [sci EXCEPT !.job.state = "subdividing",
                                   !.job.cell = EmptyNode(leaf.origin, leaf.size),
                                   !.job.held = Append(leaf.particles, p),
                                   !.job.depth = 0]
           ELSE sci' = [sci EXCEPT !.job.tree = InsertParticle(@, p),
                                   !.job.todo = Tail(@)]
    /\ UNCHANGED <<cfg, tracker, ionDef, integratorVarsButIndex>>

\* the overflowing cell is subdivided and its particles are inserted into
\* the octants: an octant that takes them all overflows as the cell did
SubdivideStep ==
    /\ sci.job.state = "subdividing"
    /\ LET cell == sci.job.cell
           octants == OctantsOf(cell, sci.job.held)
       IN  IF Cardinality(octants) = 1 /\ Len(sci.job.held) > Capacity
           THEN sci' = [sci EXCEPT !.job.cell =
                                       Subdivide(cell)[CHOOSE k \in octants : TRUE],
                                   !.job.depth = (@ + 1) % MaxDepth]
           ELSE sci' = [sci EXCEPT !.job.state = "inserting",
                                   !.job.tree = InsertParticle(@, Head(sci.job.todo)),
                                   !.job.todo = Tail(@),
                                   !.job.held = <<>>,
                                   !.job.depth = @ + 1]
    /\ UNCHANGED <<cfg, tracker, ionDef, integratorVarsButIndex>>

\* every particle is inserted: build returns the hierarchy
FinishBuild ==
    /\ sci.job.state = "inserting"
    /\ sci.job.todo = <<>>
    /\ sci' = [sci EXCEPT !.root = sci.job.tree,
                          !.built = [done |-> TRUE, particles |-> sci.particles],
                          !.job.state = "done"]
    /\ UNCHANGED <<cfg, tracker, ionDef, integratorVarsButIndex>>

InitBuild ==
    \E c \in Configurations, ps \in CloudsAnywhere :
        /\ c.particles = <<>>
        /\ c.accelerationFunction_ = "accelerationFct"
        /\ c.collisionModel_ = "nullptr"
        /\ c.terminationTimeStep = NoTermination
        /\ c.calls = 1
        /\ InitWith([c EXCEPT !.cloud = ps])

NextBuild == StartBuild \/ InsertStep \/ SubdivideStep \/ FinishBuild

\* build is one call: once entered it runs on
SpecBuild == InitBuild /\ [][NextBuild]_vars /\ WF_vars(NextBuild)

\* ------------------------------------------------ ion definition reading
\* The vector particles holds the owning pointers, each given by the
\* address of the particle it owns; particlePtrs holds raw addresses; heap
\* is the set of addresses of the particles alive.

\* ions of one file or one ion group
MaxIons == 2
\* calls of readIonDefinition on the same two vectors
MaxReads == 2

SeqsUpTo(S, n) == UNION {[1..k -> S] : k \in 0..n}

\* what the two vectors can hold when readIonDefinition is called first
IonDefinitions ==
    {[particles |-> ps, particlePtrs |-> ptrs,
      heap |-> {ps[i] : i \in 1..Len(ps)} \cup {ptrs[i] : i \in 1..Len(ptrs)},
      reads |-> 0, returned |-> FALSE] :
        ps \in {q \in SeqsUpTo(1..MaxIons, MaxIons) :
                   \A i, j \in 1..Len(q) : q[i] = q[j] => i = j},
        ptrs \in SeqsUpTo(1..MaxIons, MaxIons)}

\* the simulation configurations: an ion cloud file with so many ions, or
\* none and the ion groups of a random start zone
IonConfigurations ==
    [ion_cloud_init_file : {None} \cup (0..MaxIons),
     n_ions : SeqsUpTo(0..MaxIons, 2),
     ion_start_geometry : {"box", "cylinder", "sphere"}]

isIonCloudDefinitionPresent(confRoot) == confRoot.ion_cloud_init_file # None

\* n particles newly allocated: at the lowest addresses not in use
RECURSIVE readIonCloud(_, _)
readIonCloud(heap, n) ==
    IF n <= 0 THEN <<>>
    ELSE LET a == CHOOSE x \in 1..(Cardinality(heap) + 1) :
                      x \notin heap /\ \A y \in 1..(x - 1) : y \in heap
         IN  <<a>> \o readIonCloud(heap \cup {a}, n - 1)

\* the vector of the file's particles is assigned to particles, which
\* destroys the particles it owned, and their addresses are appended to
\* particlePtrs
readIonDefinitionFromIonCloudFile(d, confRoot) ==
    LET read == readIonCloud(d.heap, confRoot.ion_cloud_init_file)
    IN  [d EXCEPT !.particles = read,
                  !.particlePtrs = d.particlePtrs \o read,
                  !.heap = (d.heap \ {d.particles[i] : i \in 1..Len(d.particles)})
                              \cup {read[i] : i \in 1..Len(read)},
                  !.returned = TRUE]

\* the loop over the ion groups from group g on: the ions of a group are
\* appended to both vectors, one by one
RECURSIVE readGroups(_, _, _)
readGroups(d, nIons, g) ==
    IF g > Len(nIons) THEN d
    ELSE LET ions == readIonCloud(d.heap, nIons[g])
         IN  readGroups([d EXCEPT !.particles = d.particles \o ions,
                                  !.particlePtrs = d.particlePtrs \o ions,
                                  !.heap = d.heap \cup {ions[i] : i \in 1..Len(ions)}],
                        nIons, g + 1)

\* throws on an unknown start geometry, before any vector is touched
readRandomIonDefinition(d, confRoot) ==
    IF confRoot.ion_start_geometry \notin {"box", "cylinder"}
    THEN [d EXCEPT !.returned = FALSE]
    ELSE [readGroups(d, confRoot.n_ions, 1) EXCEPT !.returned = TRUE]

readIonDefinition(d, confRoot) ==
    IF isIonCloudDefinitionPresent(confRoot)
    THEN readIonDefinitionFromIonCloudFile(d, confRoot)
    ELSE readRandomIonDefinition(d, confRoot)

ReadIonDefinitionCall(confRoot) ==
    /\ ionDef.reads < MaxReads
    /\ ionDef' = [readIonDefinition(ionDef, confRoot) EXCEPT !.reads = @ + 1]
    /\ UNCHANGED <<cfg, tracker, sci, integratorVarsButIndex>>

InitIons ==
    \E c \in Configurations, d \in IonDefinitions :
        /\ c.particles = <<>>
        /\ c.accelerationFunction_ = "accelerationFct"
        /\ c.collisionModel_ = "nullptr"
        /\ c.terminationTimeStep = NoTermination
        /\ c.calls = 1
        /\ InitWith([c EXCEPT !.ionDefinition = d])

NextIons == \E confRoot \in IonConfigurations : ReadIonDefinitionCall(confRoot)

SpecIons == InitIons /\ [][NextIons]_vars

\* ------------------------------------- the step under one fixed schedule
\* the whole body of the parallel-for for particle i, executed by worker w
ParallelBody(e, r, w, i, d) ==
    IF isActive(e, i)
    THEN LET e1 == IntegrateVelocity(EvaluateForce(StagePosition(e, i, d), i),
                                     i, d)
             m == Collision(e1, r, w, i, d)
         IN  [ens |-> m.ens, rng |-> m.rng]
    ELSE [ens |-> e, rng |-> r]

\* the worker of particle i when the chunks go to the workers in turn
StaticWorker(i) == (((i - 1) \div ChunkSize) % NWorkers) + 1

\* the parallel-for executed one iteration after the other, in index order
RECURSIVE ParallelPhaseInOrder(_, _, _, _)
ParallelPhaseInOrder(e, r, i, d) ==
    IF i > e.nParticles_ THEN [ens |-> e, rng |-> r]
    ELSE LET b == ParallelBody(e, r, StaticWorker(i), i, d)
         IN  ParallelPhaseInOrder(b.ens, b.rng, i + 1, d)

\* runSingleStep under that schedule
runSingleStepInOrder(e, r, d) ==
    LET p == ParallelPhaseInOrder(e, r, 1, d)
    IN  [ens |-> SequentialPhase(p.ens, 1, <<>>).ens, rng |-> p.rng]

\* n steps under that schedule
RECURSIVE runInOrder(_, _, _, _)
runInOrder(e, r, n, d) ==
    IF n = 0 THEN [ens |-> e, rng |-> r]
    ELSE LET s == runSingleStepInOrder(e, r, d)
         IN  runInOrder(s.ens, s.rng, n - 1, d)

\* ---------------------------------------------------------------- claims
\* run() has returned
Returned == pc = "idle" /\ history # <<>>

\* steps committed by the current (or last) run
Committed == timestep_ - runStart.timestep

\* the last step of the current run is through, ens is its result and
\* pre, preRng are what it started from
StepCommitted == pc \in {"loop", "finalize", "idle"} /\ Committed > 0

LastCall == cbLog[Len(cbLog)]

\* C1: when the callback requests termination at step k of a run, the run
\* returns with exactly k steps committed (step counter and time advanced
\* by k and k*dt), and its last callback reports step k
C1_TerminationAtRequestedStep ==
    (Returned /\ reqAt # None) =>
        /\ Committed = reqAt
        /\ time_ - runStart.time = reqAt * dt
        /\ LastCall.last
        /\ LastCall.timestep = runStart.timestep + reqAt

\* C2: every run() returns in state STOPPED; the callback was called with
\* isLastStep = true exactly once, as the last call, and never before the
\* run returns
C2_RunEndsStoppedWithOneLastCall ==
    /\ Returned =>
          /\ runState_ = "STOPPED"
          /\ cbLog # <<>>
          /\ LastCall.last
          /\ \A j \in 1..(Len(cbLog) - 1) : ~cbLog[j].last
    /\ pc # "idle" =>
          /\ runState_ \in {"RUNNING", "IN_TERMINATION"}
          /\ \A j \in 1..Len(cbLog) : ~cbLog[j].last

\* a second run has returned, ended by a termination request, on an
\* ensemble with particles
C2_Witness ==
    /\ Returned
    /\ Len(history) >= 2
    /\ reqAt # None
    /\ ens.nParticles_ > 0
    /\ Len(cbLog) >= 3

\* C3: a run of n steps calls the callback n + 2 times, the first call
\* reporting the time and step counter the run starts with and made before
\* any position or velocity is modified; a run terminated at step k calls
\* it k + 2 times
C3_CallbackCount ==
    /\ Returned =>
          /\ reqAt = None => Len(cbLog) = nTimesteps + 2
          /\ reqAt # None => Len(cbLog) = reqAt + 2
          /\ cbLog[1] = Call(runStart.timestep, runStart.time, FALSE)
    /\ pc = "announce" => ens.particles_ = runStart.particles

\* C4: while the parallel phase runs no position is committed, and every
\* force evaluation and every staged position of the step was computed
\* from the positions the previous step committed
C4_ParallelPhaseReadsCommittedPositions ==
    pc = "parallel" =>
        /\ Positions(ens) = Positions(pre)
        /\ \A i \in 1..ens.nParticles_ :
              progress[i] >= 1 =>
                  /\ seen[i] = Positions(pre)
                  /\ ens.newPos_[i] =
                        pre.particles_[i].pos + pre.particles_[i].vel * dt
                        + pre.a_t_[i] * HalfDtSquared(dt)

\* in a step that moves the particles, one particle is through the
\* parallel body, another one has staged its position, a third is not begun
C4_Witness ==
    /\ pc = "parallel"
    /\ \E i, j, k \in 1..ens.nParticles_ :
          /\ progress[i] = 2
          /\ progress[j] = 1
          /\ progress[k] = 0
          /\ ens.newPos_[i] # pre.particles_[i].pos
          /\ ens.newPos_[j] # pre.particles_[j].pos

\* C5: no two workers of the parallel phase write the same variable or
\* the same external resource (here: with the pool of the production code,
\* which hands every worker a random source of its own)
C5_WorkersWriteDisjoint ==
    cfg.globalRandomGeneratorPool = "RandomGeneratorPool" =>
        \A w1, w2 \in Workers : w1 # w2 => writes[w1] \cap writes[w2] = {}

C7_StepIndependentOfMapping ==
    (/\ StepCommitted
     /\ cfg.collisionModel_ = "MDInteractionsModel"
     /\ cfg.accelerationFunction_ = "accelerationFct"
     /\ cfg.globalRandomGeneratorPool = "RandomGeneratorPool") =>
        ens = runSingleStepInOrder(pre, preRng, dt).ens

\* C8: no random source of the pool is handed to two different workers
C8_SourceHandedToOneWorker ==
    \A el \in RandomSources : Cardinality(handed[el]) <= 1

\* the calls the sequential phase makes for one particle
CallsPerParticle == IF cfg.collisionModel_ = "nullptr" THEN 2 ELSE 3
CallNames ==
    IF cfg.collisionModel_ = "nullptr"
    THEN <<"otherActions", "setLocation">>
    ELSE <<"modifyPosition", "otherActions", "setLocation">>

ActiveIndices == {i \in 1..ens.nParticles_ : ens.particles_[i].active}

\* C9: the sequential phase visits the active particles in ascending index
\* order, each exactly once, and calls for each modifyPosition, then
\* otherActions, then commits the position: the two hooks still see the
\* location of the previous step; a run of n steps on N particles that are
\* all active makes n * N calls of otherActions
C9_SequentialPhaseOrder ==
    /\ StepCommitted =>
          /\ Len(seqLog) = CallsPerParticle * Cardinality(ActiveIndices)
          /\ {seqLog[k][2] : k \in 1..Len(seqLog)} = ActiveIndices
          /\ \A k \in 1..Len(seqLog) :
                LET c == seqLog[k]
                    i == c[2]
                IN  /\ c[1] = CallNames[((k - 1) % CallsPerParticle) + 1]
                    /\ c[3] = ens.newPos_[i]
                    /\ c[4] = IF c[1] = "setLocation"
                              THEN ens.newPos_[i]
                              ELSE pre.particles_[i].pos
                    /\ ens.particles_[i].pos = ens.newPos_[i]
          /\ \A k, l \in 1..Len(seqLog) :
                k < l => IF (k - 1) \div CallsPerParticle
                            = (l - 1) \div CallsPerParticle
                         THEN seqLog[k][2] = seqLog[l][2]
                         ELSE seqLog[k][2] < seqLog[l][2]
    /\ (Returned /\ ActiveIndices = 1..ens.nParticles_) =>
          otherCount = Committed * ens.nParticles_

\* a step that moved two active particles and skipped an inactive one,
\* with the collision model attached
C9_Witness ==
    /\ StepCommitted
    /\ cfg.collisionModel_ = "MDInteractionsModel"
    /\ Cardinality(ActiveIndices) >= 2
    /\ ActiveIndices # 1..ens.nParticles_
    /\ \E k \in 1..Len(seqLog) :
          seqLog[k][1] = "otherActions" /\ seqLog[k][3] # seqLog[k][4]

C11_ClosedForm ==
    (/\ pc \in {"loop", "finalize"}
     /\ runStart.timestep = 0
     /\ cfg.accelerationFunction_ = "accelerationFct"
     /\ cfg.collisionModel_ = "nullptr"
     /\ ens.nParticles_ = 1) =>
        /\ ens.particles_[1].pos - cfg.particles[1].pos
             = (IonAcceleration * time_ * time_) \div 2
        /\ ens.particles_[1].vel = IonAcceleration * time_

\* C12: the step counter and the time change only by a step, by 1 and by
\* dt, in the step that commits the positions and reports the new values to
\* the callback; a run of n steps of a fresh integrator that is not
\* terminated returns with step counter n and time n*dt, and the callback of
\* step s reports s and s*dt
C12_StepAdvancesCounterAndTime ==
    /\ [](/\ (Returned /\ reqAt = None /\ Len(history) = 1) =>
               (timestep_ = nTimesteps /\ time_ = nTimesteps * dt)
          /\ \A j \in 1..Len(cbLog) :
               ~cbLog[j].last =>
                   /\ cbLog[j].timestep = runStart.timestep + (j - 1)
                   /\ cbLog[j].time = runStart.time + (j - 1) * dt)
    /\ [][/\ pc = "parallel"
          /\ timestep_' = timestep_ + 1
          /\ time_' = time_ + dt
          /\ \A i \in 1..ens'.nParticles_ :
               ens'.particles_[i].active =>
                   ens'.particles_[i].pos = ens'.newPos_[i]
          /\ cbLog' = Append(cbLog, Call(timestep_', time_', FALSE))
         ]_<<time_, timestep_>>

\* the first run of an integrator has returned after MaxSteps steps on an
\* ensemble with particles, not terminated
C12_Witness ==
    /\ Returned
    /\ Len(history) = 1
    /\ reqAt = None
    /\ nTimesteps = MaxSteps
    /\ timestep_ = MaxSteps
    /\ ens.nParticles_ > 0

\* C17: a particle for which the potential array has no field is deactivated
\* by the force law, with the zero acceleration; the run still returns in
\* state STOPPED; an inactive particle stays inactive and its position never
\* changes again; the active particles are committed to the positions the
\* Verlet scheme stages for them
C17_FieldFailureDeactivates ==
    /\ [](/\ pc = "parallel" =>
               \A i \in 1..ens.nParticles_ :
                   (/\ cfg.accelerationFunction_ = "accelerationFunction"
                    /\ progress[i] >= 1
                    /\ pre.particles_[i].pos \notin Domain) =>
                       (~ens.particles_[i].active /\ ens.a_tdt_[i] = 0)
          /\ Returned => runState_ = "STOPPED"
          /\ StepCommitted =>
               \A i \in 1..ens.nParticles_ :
                   IF ens.particles_[i].active
                   THEN ens.particles_[i].pos =
                          pre.particles_[i].pos + pre.particles_[i].vel * dt
                          + pre.a_t_[i] * HalfDtSquared(dt)
                   ELSE ens.particles_[i].pos = pre.particles_[i].pos)
    /\ [][\A i \in 1..ens.nParticles_ :
            ~ens.particles_[i].active =>
                /\ ~ens'.particles_[i].active
                /\ ens'.particles_[i].pos = ens.particles_[i].pos]_vars

\* after two steps a particle outside the potential array is inactive, at
\* the place where it started, and an active particle has moved
C17_Witness ==
    /\ StepCommitted
    /\ Committed = 2
    /\ cfg.accelerationFunction_ = "accelerationFunction"
    /\ \E i, j \in 1..ens.nParticles_ :
          /\ ~ens.particles_[i].active
          /\ ens.particles_[i].pos \notin Domain
          /\ ens.particles_[i].pos = cfg.particles[i].pos
          /\ ens.particles_[j].active
          /\ ens.particles_[j].pos # pre.particles_[j].pos

\* the calls the sequential phase of the last step made for particle i
SequentialCallsFor(i) == SelectSeq(seqLog, LAMBDA c : c[2] = i)

\* C18: a particle that is inactive when a step starts is skipped by both
\* phases: position, velocity, previous acceleration and staged position are
\* what they were, no force law, collision model or otherActions call is
\* made for it, and it keeps its index
C18_InactiveParticleSkipped ==
    (pc = "parallel" \/ StepCommitted) =>
        /\ ens.nParticles_ >= pre.nParticles_
        /\ \A i \in 1..pre.nParticles_ :
             ~pre.particles_[i].active =>
                 /\ ens.particles_[i] = pre.particles_[i]
                 /\ ens.a_t_[i] = pre.a_t_[i]
                 /\ ens.a_tdt_[i] = pre.a_tdt_[i]
                 /\ ens.newPos_[i] = pre.newPos_[i]
                 /\ progress[i] = 0
                 /\ seen[i] = <<>>
                 /\ StepCommitted => SequentialCallsFor(i) = <<>>

\* a step with the collision model attached is through that started with
\* an inactive particle between two active ones
C18_Witness ==
    /\ StepCommitted
    /\ cfg.collisionModel_ = "MDInteractionsModel"
    /\ pre.nParticles_ >= 3
    /\ pre.particles_[1].active
    /\ ~pre.particles_[2].active
    /\ pre.particles_[3].active
    /\ ens.particles_[3].pos # pre.particles_[3].pos

\* the call that led to the current state of the tracker
LastCallWas(op) == tracker'.last.op = op

C13_TerminationNeverPreemptsStep ==
    [][(pc = "parallel" /\ pc' # "parallel") =>
           /\ \A i \in 1..pre.nParticles_ :
                  pre.particles_[i].active => progress[i] = 2
           /\ \A i \in 1..ens.nParticles_ :
                  ens.particles_[i].active =>
                      /\ ens'.particles_[i].pos = ens.newPos_[i]
                      /\ \E k \in 1..Len(seqLog') :
                             seqLog'[k][1] = "setLocation" /\ seqLog'[k][2] = i
           /\ time_' = time_ + dt
           /\ timestep_' = timestep_ + 1
           /\ cbLog' = Append(cbLog, Call(timestep_', time_', FALSE))
           /\ pc' = IF runState_' = "IN_TERMINATION" THEN "finalize"
                    ELSE "loop"
      ]_vars

\* a step of two particles has been committed and has ended the run, after
\* termination was requested from outside while the step was under way
C13_Witness ==
    /\ pc = "finalize"
    /\ runState_ = "IN_TERMINATION"
    /\ cfg.terminationTimeStep = NoTermination
    /\ step < nTimesteps - 1
    /\ ens.nParticles_ >= 2
    /\ \A i \in 1..ens.nParticles_ :
           ens.particles_[i].active /\ progress[i] = 2
                                   /\ ens.particles_[i].pos = ens.newPos_[i]

\* the changes of the run state that INITIALIZED -> RUNNING ->
\* (IN_TERMINATION) -> STOPPED allows
RunStateChanges ==
    {<<"INITIALIZED", "RUNNING">>, <<"RUNNING", "IN_TERMINATION">>,
     <<"RUNNING", "STOPPED">>, <<"IN_TERMINATION", "STOPPED">>}

\* C14: over any sequence of run and setTerminationState calls the run state
\* changes only from INITIALIZED to RUNNING, from RUNNING to IN_TERMINATION
\* or STOPPED, and from IN_TERMINATION to STOPPED
C14_RunStateChanges ==
    [][\E c \in RunStateChanges : runState_ = c[1] /\ runState_' = c[2]
      ]_runState_

\* C15: the particle list, the staged positions and both acceleration arrays
\* have length nParticles_ at any time: after construction, and after
\* addParticle calls made before, between and during the runs
C15_ArraysHaveLengthNParticles ==
    /\ Len(ens.particles_) = ens.nParticles_
    /\ Len(ens.newPos_) = ens.nParticles_
    /\ Len(ens.a_t_) = ens.nParticles_
    /\ Len(ens.a_tdt_) = ens.nParticles_
    /\ pc = "parallel" =>
           \A w \in Workers :
               wk[w].state # "idle" => wk[w].i \in 1..ens.nParticles_

\* a step is under way on an ensemble that holds a particle added between
\* two runs and a particle added by the otherActions callback of an earlier
\* step, next to those handed to the constructor
C15_Witness ==
    /\ pc = "parallel"
    /\ Len(history) >= 1
    /\ cfg.particles # <<>>
    /\ unborn = <<>>
    /\ Additions(ens) >= 1
    /\ cfg.spawn # NoSpawn
    /\ timestep_ > cfg.spawn.timestep
    /\ ens.nParticles_ = Len(cfg.particles) + cfg.additions
    /\ \E w \in Workers : wk[w].state # "idle" /\ wk[w].i = ens.nParticles_

\* C16: adding a particle between two runs or during a step does not touch
\* the particles present before: the addition leaves them as they are and
\* the step commits for each of them the position staged for it, with the
\* velocity and the previous acceleration of the parallel phase; and the
\* particle added has the position and the velocity it was added with when
\* the step of its insertion is committed, from where the later steps
\* integrate it
C16_InsertionLeavesOthersAlone ==
    [][ens'.nParticles_ > ens.nParticles_ /\ unborn' = unborn =>
           /\ \A i \in 1..ens.nParticles_ :
                  /\ ens'.particles_[i].pos =
                         IF pc = "parallel" /\ ens.particles_[i].active
                         THEN ens.newPos_[i] ELSE ens.particles_[i].pos
                  /\ ens'.particles_[i].vel = ens.particles_[i].vel
                  /\ ens'.a_t_[i] = ens.a_t_[i]
           /\ \A j \in (ens.nParticles_ + 1)..ens'.nParticles_ :
                  /\ ens'.particles_[j].pos = AddedParticle.pos
                  /\ ens'.particles_[j].vel = AddedParticle.vel
      ]_ens

\* the call of bearParticles_ that bears a particle with time of birth tob:
\* the first one at a time not before tob
BornAt(entry, tob) ==
    /\ entry.time >= tob
    /\ entry.time = 0 \/ entry.time - dt < tob

C21_UnregisteredRejected ==
    [][((LastCallWas("get") \/ LastCallWas("particleSplat"))
        /\ tracker.pMap_[tracker'.last.addr] = NoEntry) =>
           /\ tracker'.result = "invalid_argument"
           /\ tracker'.pMap_ = tracker.pMap_
           /\ tracker'.pInsertIndex_ = tracker.pInsertIndex_
           /\ tracker'.heap = tracker.heap
           /\ tracker'.sortedParticleData_ = tracker.sortedParticleData_
      ]_tracker

\* the addresses under which the tracker holds a record
Registered(tr) == {a \in Addresses : tr.pMap_[a] # NoEntry}

RECURSIVE AllNodes(_)
AllNodes(node) ==
    {node} \cup UNION {AllNodes(node.children[k]) :
                          k \in 1..Len(node.children)}

RECURSIVE HeldBy(_)
RECURSIVE HeldByChildren(_, _)
HeldByChildren(node, k) ==
    IF k > Len(node.children) THEN <<>>
    ELSE HeldBy(node.children[k]) \o HeldByChildren(node, k + 1)

HeldBy(node) == node.particles \o HeldByChildren(node, 1)

RECURSIVE SumCharge(_)
SumCharge(ps) ==
    IF ps = <<>> THEN 0 ELSE Head(ps).charge + SumCharge(Tail(ps))

\* the particles handed to the last build that were active then
BuiltActive == SelectSeq(sci.built.particles, LAMBDA p : p.active)

IndexBuilt == sci.built.done /\ sci.root # NoIndex

\* the index has subdivided an octant of the root region again
NestedIndex ==
    /\ IndexBuilt
    /\ sci.root.children # <<>>
    /\ \E k \in 1..8 : sci.root.children[k].children # <<>>

\* C23: after every build the aggregate charge of each node is the sum of
\* the charges of the particles in its subtree, all of them active; the
\* charge of the root is the sum of the charges of the active particles
\* handed to build, and inactive particles contribute nothing
C23_AggregateChargeIsSubtreeSum ==
    IndexBuilt =>
        /\ \A n \in AllNodes(sci.root) : n.charge = SumCharge(HeldBy(n))
        /\ sci.root.charge = SumCharge(BuiltActive)
        /\ \A j \in 1..Len(HeldBy(sci.root)) : HeldBy(sci.root)[j].active

\* an index with a twice subdivided region, built from three particles of
\* which one was inactive
C23_Witness ==
    /\ IndexBuilt
    /\ sci.root.children # <<>>
    /\ Len(sci.built.particles) = 3
    /\ Len(BuiltActive) = 2
    /\ sci.root.charge = 3

\* C24: after every build a node has no children or eight, a subdivided
\* node holds no particle, no leaf holds more particles than the capacity
\* threshold, and every active particle is held by exactly one leaf
C24_IndexStructure ==
    IndexBuilt =>
        /\ \A n \in AllNodes(sci.root) :
               /\ Len(n.children) \in {0, 8}
               /\ n.children # <<>> => n.particles = <<>>
               /\ n.children = <<>> => Len(n.particles) <= Capacity
        /\ Len(HeldBy(sci.root)) = Len(BuiltActive)
        /\ \A j \in 1..Len(BuiltActive) :
               Len(SelectSeq(HeldBy(sci.root),
                             LAMBDA p : p.id = BuiltActive[j].id)) = 1

\* three active particles in an index that has subdivided twice
C24_Witness ==
    /\ NestedIndex
    /\ Len(BuiltActive) = 3

\* C25: a build with no active particle, from an empty ensemble or from
\* one whose particles are all inactive, yields an index, and fieldAt on it
\* returns the zero vector for every point and every excluded particle
C25_EmptyIndexGivesZeroField ==
    (sci.built.done /\ BuiltActive = <<>>) =>
        /\ sci.root # NoIndex
        /\ sci.query.asked =>
               sci.query.terms = <<>> /\ sci.query.value = Zero3

\* fieldAt has been asked on an index built from particles that were all
\* inactive
C25_Witness ==
    /\ sci.built.done
    /\ Len(sci.built.particles) >= 2
    /\ BuiltActive = <<>>
    /\ sci.query.asked
    /\ sci.query.exclude = 1
    /\ sci.query.theta.num # 0

\* C26: with opening angle 0 fieldAt never takes a pseudo-particle: it sums
\* the exact contributions of exactly the active particles other than the
\* excluded one, each once, which is the sum of the full-sum evaluator
C26_ZeroThetaIsFullSum ==
    (IndexBuilt /\ sci.query.asked /\ sci.query.theta.num = 0) =>
        LET q == sci.query
            others == SelectSeq(BuiltActive, LAMBDA p : p.id # q.exclude)
        IN  /\ \A j \in 1..Len(q.terms) : q.terms[j].kind = "exact"
            /\ Len(q.terms) = Len(others)
            /\ \A j \in 1..Len(others) :
                   Len(SelectSeq(q.terms,
                                 LAMBDA t : t.id = others[j].id)) = 1
            /\ q.value = FullSumFieldAt(sci.built.particles, q.point,
                                        q.exclude)

\* fieldAt with opening angle 0 has been asked far from a subdivided octant
\* that the default opening angle would have replaced by its pseudo-particle
C26_Witness ==
    /\ NestedIndex
    /\ sci.query.asked
    /\ sci.query.theta.num = 0
    /\ sci.query.exclude # 0
    /\ Len(sci.query.terms) >= 2
    /\ \E k \in 1..8 :
           /\ sci.root.children[k].children # <<>>
           /\ UsePseudoParticle(sci.root.children[k], sci.query.point,
                                [num |-> 1, den |-> 4])

\* particle i has gone through the first n statements of the parallel body
\* in the step just taken
ParallelProgress(i, n) ==
    /\ pc = "parallel" /\ pc' = "parallel"
    /\ i \in DOMAIN progress /\ i \in DOMAIN progress'
    /\ progress[i] = n - 1 /\ progress'[i] = n

CommittedFor(k) ==
    \E j \in 1..Len(seqLog') :
        seqLog'[j][1] = "setLocation" /\ seqLog'[j][2] = k

CalledFor(k) == \E j \in 1..Len(seqLog') : seqLog'[j][2] = k

C29_AppendedParticleNotVisited ==
    [][(pc = "parallel" /\ pc' # "parallel"
        /\ ens'.nParticles_ > ens.nParticles_) =>
           \A j \in (ens.nParticles_ + 1)..ens'.nParticles_ :
               /\ \A c \in 1..Len(seqLog') : seqLog'[c][2] # j
               /\ ens'.particles_[j].pos = AddedParticle.pos]_vars

\* termination has been requested and the step loop of the first run has
\* not started a step since
RequestBeforeFirstStep ==
    /\ runState_ = "IN_TERMINATION"
    /\ history = <<>>
    /\ step = 0
    /\ pc \in {"idle", "announce", "loop"}

\* C30: a termination request made before run() has set RUNNING, or in the
\* step-0 callback, is not lost: it stays pending until the step loop sees
\* it, and the loop then starts and commits no step before finalization
C30_EarlyRequestHonoured ==
    [][RequestBeforeFirstStep =>
           /\ runState_' = "IN_TERMINATION"
           /\ pc' # "parallel"
           /\ timestep_' = timestep_]_vars

\* one step of the integrator without any hook or callback: for every
\* active particle the staged position, the force law and the velocity, then
\* the commit of the staged positions
RECURSIVE NoHookParallel(_, _, _)
NoHookParallel(e, i, d) ==
    IF i > e.nParticles_ THEN e
    ELSE IF e.particles_[i].active
    THEN NoHookParallel(
             IntegrateVelocity(EvaluateForce(StagePosition(e, i, d), i), i, d),
             i + 1, d)
    ELSE NoHookParallel(e, i + 1, d)

NoHookStep(e, d) ==
    LET p == NoHookParallel(e, 1, d)
    IN  [p EXCEPT !.particles_ =
            [i \in 1..p.nParticles_ |->
                IF p.particles_[i].active
                THEN [p.particles_[i] EXCEPT !.pos = p.newPos_[i]]
                ELSE p.particles_[i]]]

\* C31: with no collision model and with a collision model whose callbacks
\* do nothing every step leaves the same ensemble, time and step counter,
\* those of the step without hooks; a null post-step callback and a null
\* otherActions callback are never invoked and the run takes all its steps
C31_NoOpHooksChangeNothing ==
    /\ [][(pc = "parallel" /\ pc' # "parallel") =>
              /\ ens' = NoHookStep(pre, dt)
              /\ rng' = preRng
              /\ time_' = time_ + dt
              /\ timestep_' = timestep_ + 1]_vars
    /\ [](cfg.postTimestepFunction_ = "nullptr" =>
              /\ cbLog = <<>>
              /\ runState_ # "IN_TERMINATION"
              /\ pc = "finalize" => step = nTimesteps)
    /\ [](cfg.otherActionsFunction_ = "nullptr" =>
              /\ otherCount = 0
              /\ \A c \in 1..Len(seqLog) : seqLog[c][1] # "otherActions")

\* a run of two steps with a collision model whose callbacks do nothing and
\* without the two callbacks has returned; two particles have moved
C31_Witness ==
    /\ cfg.collisionModel_ = "NoOpModel"
    /\ cfg.postTimestepFunction_ = "nullptr"
    /\ cfg.otherActionsFunction_ = "nullptr"
    /\ pc = "idle" /\ history = <<2>>
    /\ timestep_ = 2
    /\ ens.nParticles_ = 2
    /\ \A i \in 1..2 : ens.particles_[i].pos # cfg.particles[i].pos
    /\ \E c \in 1..Len(seqLog) : seqLog[c][1] = "modifyPosition"

\* C32: every distinct particle can be registered with particleStart and
\* gets a record of its own, also at the address of a destroyed particle
\* that was registered; a record is never that of two particles
C32_EveryParticleGetsOwnRecord ==
    /\ [][(/\ LastCallWas("particleStart")
            /\ tracker.heap[tracker'.last.addr].globalIndex = None) =>
               /\ tracker'.result = "ok"
               /\ tracker'.pMap_[tracker'.last.addr].globalIndex =
                      tracker.pInsertIndex_
               /\ tracker'.pInsertIndex_ = tracker.pInsertIndex_ + 1
          ]_tracker
    /\ [](\A a \in Addresses :
              (tracker.heap[a].alive /\ tracker.pMap_[a] # NoEntry
               /\ tracker.pMap_[a].state = "SPLATTED") =>
                  tracker.heap[a].globalIndex = tracker.pMap_[a].globalIndex)

\* what the six getters return
Getters(tr) ==
    <<getStartSplatData(tr), getSplatState(tr), getStartTimes(tr),
      getSplatTimes(tr), getStartLocations(tr), getSplatLocations(tr)>>

\* the record with global index g
RecordOf(tr, g) ==
    CHOOSE e \in {tr.pMap_[a] : a \in Registered(tr)} : e.globalIndex = g

\* C33: after sortStartSplatData the six getters return sequences of one
\* length, with one entry for each particle registered at the time of the
\* sort, in the order of the global indices; the entries are those of the
\* records at that time, and particleStart and particleSplat do not change
\* what the getters return
C33_GettersReturnSortedSnapshot ==
    /\ [](\A n \in 1..6 :
              Len(Getters(tracker)[n]) = Len(tracker.sortedParticleData_))
    /\ [][LastCallWas("sortStartSplatData") =>
              LET data == getStartSplatData(tracker')
              IN  /\ Len(data) = tracker.pInsertIndex_
                  /\ \A k \in 1..Len(data) :
                         LET rec == RecordOf(tracker, k - 1)
                         IN  /\ data[k].globalIndex = k - 1
                             /\ data[k] = rec
                             /\ getSplatState(tracker')[k] = StateCode(rec.state)
                             /\ getStartTimes(tracker')[k] = rec.startTime
                             /\ getSplatTimes(tracker')[k] = rec.splatTime
                             /\ getStartLocations(tracker')[k] =
                                    rec.startLocation
                             /\ getSplatLocations(tracker')[k] =
                                    rec.splatLocation
          ]_tracker
    /\ [][(LastCallWas("particleStart") \/ LastCallWas("particleSplat")) =>
              Getters(tracker') = Getters(tracker)]_tracker

\* two particles were registered and one had splatted when the data were
\* sorted a second time; the other has splatted since, and the getters still
\* report it as started
C33_Witness ==
    /\ tracker.last.op = "particleSplat"
    /\ tracker.result = "ok"
    /\ tracker.pInsertIndex_ = 2
    /\ getSplatState(tracker) = <<2, 1>>
    /\ RecordOf(tracker, 1).state = "SPLATTED"
    /\ getSplatTimes(tracker)[2] # RecordOf(tracker, 1).splatTime

WriteIntervals == 1..3

\* the application's postTimestepFunction: the last call writes the frame
\* and finalizes the trajectory, any other call writes the frame when the
\* step index is a multiple of the interval
postTimestepFunction(file, call, trajectoryWriteInterval) ==
    IF call.last
    THEN file \o << [op |-> "writeTimestep", timestep |-> call.timestep, time |-> call.time],
                    [op |-> "finalizeTrajectory", timestep |-> call.timestep, time |-> call.time] >>
    ELSE IF call.timestep % trajectoryWriteInterval = 0
         THEN Append(file, [op |-> "writeTimestep", timestep |-> call.timestep,
                            time |-> call.time])
         ELSE file

\* the trajectory file after the calls of log
RECURSIVE hdf5Writer(_, _)
hdf5Writer(log, trajectoryWriteInterval) ==
    IF log = <<>> THEN <<>>
    ELSE postTimestepFunction(hdf5Writer(SubSeq(log, 1, Len(log) - 1), trajectoryWriteInterval),
                              log[Len(log)], trajectoryWriteInterval)

\* the trajectory is finalized exactly once per run, as the last operation
\* on the file, right after the frame of the final state
FinalizedOnceAfterLastWrite ==
    \A k \in WriteIntervals :
        LET file == hdf5Writer(cbLog, k)
        IN  /\ Returned =>
                  /\ {j \in 1..Len(file) : file[j].op = "finalizeTrajectory"} = {Len(file)}
                  /\ file[Len(file) - 1].op = "writeTimestep"
                  /\ file[Len(file) - 1].timestep = timestep_
                  /\ file[Len(file) - 1].time = time_
            /\ ~Returned => \A j \in 1..Len(file) : file[j].op = "writeTimestep"

\* C36: in every run of staticSimionPASim each committed state is written
\* to the trajectory file at most once: the per-step calls write the steps
\* whose index is a multiple of trajectory_write_interval, the final call
\* writes the final state, and the trajectory is finalized exactly once,
\* after the last write, however the run ends
C36_EachStateWrittenOnce ==
    /\ FinalizedOnceAfterLastWrite
    /\ \A k \in WriteIntervals :
          LET file == hdf5Writer(cbLog, k)
              written == {j \in 1..Len(file) : file[j].op = "writeTimestep"}
          IN  /\ \A j \in 1..Len(cbLog) :
                    (~cbLog[j].last /\ cbLog[j].timestep % k = 0) =>
                        \E f \in written : file[f].timestep = cbLog[j].timestep
              /\ \A j1, j2 \in written :
                    file[j1].timestep = file[j2].timestep => j1 = j2

\* C37: when readIonDefinition has returned, particlePtrs and particles
\* have the same length and particlePtrs[i] is the address of the particle
\* that particles[i] owns, whatever the two vectors held at the call and
\* whichever branch was taken
C37_PointersMatchOwners ==
    ionDef.returned =>
        /\ Len(ionDef.particlePtrs) = Len(ionDef.particles)
        /\ \A i \in 1..Len(ionDef.particles) :
              ionDef.particlePtrs[i] = ionDef.particles[i]

\* the particles that keep the cell under subdivision from being settled
\* are at one and the same place
SubdividingCoincident ==
    /\ sci.job.state = "subdividing"
    /\ \A i, j \in 1..Len(sci.job.held) : sci.job.held[i].pos = sci.job.held[j].pos

\* particles at different places are parted before the regions are as
\* small as the grid of positions: only particles at one place are
\* subdivided any further
OnlyCoincidentSubdividedOn ==
    (sci.job.state = "subdividing" /\ sci.job.cell.size <= 1) => SubdividingCoincident

\* no two active particles handed to the index are at the same place
NoCoincidentParticles ==
    \A i, j \in 1..Len(sci.particles) :
        (sci.particles[i].active /\ sci.particles[j].active
            /\ sci.particles[i].pos = sci.particles[j].pos) => i = j

\* the build of particles at different places ends, with the hierarchy of
\* build
BuildOfDistinctTerminates ==
    /\ [](sci.job.state = "done" /\ NoCoincidentParticles
              => sci.root = build(sci.particles))
    /\ (sci.job.state = "inserting" /\ NoCoincidentParticles)
           ~> (sci.job.state = "done")

\* C38: build terminates for every finite set of active particles, also
\* when more particles than the capacity threshold are at the same place
C38_BuildTerminates ==
    (sci.job.state = "inserting") ~> (sci.job.state = "done")

====
